---------------------------- MODULE Spec2Model ----------------------------
(***************************************************************************)
(* A model of the PySslvpn client (src/pysslvpn/main.py, driven by         *)
(* start_vpn_connection of src/pysslvpn/cli.py).                           *)
(*                                                                         *)
(* Bytes are naturals 0..255 and byte strings are sequences of them.       *)
(* A 32-bit unsigned length is kept as a pair <<hi, lo>> of 16-bit halves  *)
(* (value hi * 65536 + lo), so that the whole range 0 .. 2^32-1 is         *)
(* representable.                                                          *)
(*                                                                         *)
(* The text of a JSON document is abstracted to three bytes,               *)
(* "{" <document number> "}"; json.loads is the inverse table lookup and   *)
(* raises on every other byte string (no proper prefix of a JSON object    *)
(* text is valid JSON, and neither is the empty string).                   *)
(***************************************************************************)
EXTENDS Integers, Sequences, FiniteSets, TLC

\* ------------------------------------------------------------------ bounds
\* The largest max_retries the command line is given in the model.
MaxRetriesBound == 2
\* connect() is followed for at most this many attempts (its loop has no
\* bound of its own when the failure is not an exception).
MaxAttempts == 3
\* The longest payload the codec is exercised on byte by byte.
MaxPayload == 2
\* The longest run of update_configuration calls that is followed.
MaxUpdates == 3
\* The longest run of NetworkConfigManager calls that is followed.
MaxNetOps == 4
\* The most consecutive transport faults offered to the relay loop.
MaxFaults == 3
\* The longest run of SSLVPNClient method calls that is followed.
MaxApiCalls == 3

\* ------------------------------------------------------------- exceptions
\* A call that raised: the exception's name.
Raised(name) == [ok |-> FALSE, error |-> name]

\* A call that returned bytes.
Bytes(b) == [ok |-> TRUE, bytes |-> b]

\* ------------------------------------------------------------------ bytes
Min(a, b) == IF a <= b THEN a ELSE b

\* Python's s[a:b] for 0 <= a <= b (0-based, b exclusive, clamped).
Slice(s, a, b) == SubSeq(s, a + 1, Min(b, Len(s)))

\* A small length as a 32-bit value in halves.
U32(n) == <<n \div 65536, n % 65536>>

\* Whether a pair of halves is a value struct's 'I' format accepts.
IsU32(u) == u[1] \in 0..65535 /\ u[2] \in 0..65535

\* ------------------------------------------------------------------ codec
\* The mutant of create_packet_header: the length written little-endian.
create_packet_header_le(packet_type, payload_length) ==
    IF packet_type \notin 0..255 \/ ~IsU32(payload_length)
    THEN Raised("struct.error")
    ELSE Bytes(<<packet_type,
                 payload_length[2] % 256, payload_length[2] \div 256,
                 payload_length[1] % 256, payload_length[1] \div 256>>)

\* struct.pack('!BI', packet_type, payload_length): one byte, then four
\* bytes big-endian; struct.error outside the formats' ranges.
create_packet_header(packet_type, payload_length) ==
    IF packet_type \notin 0..255 \/ ~IsU32(payload_length)
    THEN Raised("struct.error")
    ELSE Bytes(<<packet_type,
                 payload_length[1] \div 256, payload_length[1] % 256,
                 payload_length[2] \div 256, payload_length[2] % 256>>)

\* struct.unpack('!BI', header[:5]) after the length test; any type byte
\* is accepted.
parse_packet_header(header) ==
    IF Len(header) < 5
    THEN Raised("ValueError")
    ELSE [ok |-> TRUE, packet_type |-> header[1],
          payload_length |-> <<header[2] * 256 + header[3],
                               header[4] * 256 + header[5]>>]

\* header + ip_packet
create_data_packet(ip_packet) ==
    LET header == create_packet_header(0, U32(Len(ip_packet)))
    IN  IF header.ok THEN Bytes(header.bytes \o ip_packet) ELSE header

\* ------------------------------------------------------------------- JSON
\* The JSON documents of the model. "object" documents are dicts; the
\* "array" document is a JSON value that is not a dict.
JObject(f) == [kind |-> "object", val |-> f]

ControlSuccess == JObject([status |-> "success"])

ControlFail == JObject([status |-> "fail", message |-> "bad credentials"])

ConfigA ==
    JObject([interface_ip |-> "10.8.0.2", routes |-> <<"10.8.0.0/24">>,
             dns_servers |-> <<"10.8.0.1">>])

ConfigRoutes == JObject([routes |-> <<"10.8.0.0/24", "10.9.0.0/16">>])

ConfigDns == JObject([dns_servers |-> <<"10.9.0.1">>])

JArray == [kind |-> "array", val |-> <<>>]

AuthDoc == JObject([username |-> "alice", password |-> "secret"])

DocList ==
    <<ControlSuccess, ControlFail, ConfigA, ConfigRoutes, ConfigDns, JArray,
      AuthDoc>>

DocNumber(doc) == CHOOSE i \in 1..Len(DocList) : DocList[i] = doc

\* json.dumps(doc).encode('utf-8')
JsonDumps(doc) == <<123, DocNumber(doc), 125>>

\* json.loads(payload.decode('utf-8'))
JsonLoads(payload) ==
    IF Len(payload) = 3 /\ payload[1] = 123 /\ payload[3] = 125
       /\ payload[2] \in 1..Len(DocList)
    THEN [ok |-> TRUE, doc |-> DocList[payload[2]]]
    ELSE Raised("JSONDecodeError")

\* header(2, len(auth_data)) + auth_data
create_auth_packet(username, password) ==
    LET auth_data == JsonDumps(JObject([username |-> username,
                                        password |-> password]))
        header == create_packet_header(2, U32(Len(auth_data)))
    IN  IF header.ok THEN Bytes(header.bytes \o auth_data) ELSE header

\* A frame as the gateway writes it: header and payload.
Frame(packet_type, payload) ==
    <<packet_type, 0, 0, Len(payload) \div 256, Len(payload) % 256>>
        \o payload

\* ---------------------------------------------------------------- session
\* SSLVPNSession.__init__
NewSession ==
    [routes |-> <<>>, dns_servers |-> <<>>, interface_ip |-> "None",
     is_connected |-> FALSE]

ConfigKeys == {"routes", "dns_servers", "interface_ip"}

\* The mutant of update_configuration: an update that carries routes also
\* resets the DNS servers it does not carry.
update_configuration_clearing(s, config_data) ==
    [s EXCEPT
       !.routes = IF "routes" \in DOMAIN config_data
                  THEN config_data["routes"] ELSE @,
       !.dns_servers = IF "dns_servers" \in DOMAIN config_data
                       THEN config_data["dns_servers"]
                       ELSE IF "routes" \in DOMAIN config_data THEN <<>> ELSE @,
       !.interface_ip = IF "interface_ip" \in DOMAIN config_data
                        THEN config_data["interface_ip"] ELSE @]

\* The mutant of update_configuration: the interface_ip key is not read.
update_configuration_no_ip(s, config_data) ==
    [s EXCEPT
       !.routes = IF "routes" \in DOMAIN config_data
                  THEN config_data["routes"] ELSE @,
       !.dns_servers = IF "dns_servers" \in DOMAIN config_data
                       THEN config_data["dns_servers"] ELSE @]

\* SSLVPNSession.update_configuration on a dict: each key present replaces
\* its field, the others are left alone.
update_configuration(s, config_data) ==
    [s EXCEPT
       !.routes = IF "routes" \in DOMAIN config_data
                  THEN config_data["routes"] ELSE @,
       !.dns_servers = IF "dns_servers" \in DOMAIN config_data
                       THEN config_data["dns_servers"] ELSE @,
       !.interface_ip = IF "interface_ip" \in DOMAIN config_data
                        THEN config_data["interface_ip"] ELSE @]

\* ----------------------------------------------------- the server's answer
\* SSLVPNClient._handle_server_response: what it returns ("True", "False",
\* or "None" when it falls off the end) and the session it leaves. Every
\* exception inside the try is caught and makes it return False.
handle_server_response(s, response) ==
    IF response = <<>>
    THEN [result |-> "False", session |-> s]
    ELSE LET hdr == parse_packet_header(Slice(response, 0, 5)) IN
         IF ~hdr.ok
         THEN [result |-> "False", session |-> s]
         ELSE LET packet_type == hdr.packet_type
                  length == hdr.payload_length
                  payload == Slice(response, 5,
                                   IF length[1] > 0 THEN Len(response)
                                   ELSE 5 + length[2])
                  loaded == JsonLoads(payload)
              IN  IF packet_type = 3
                  THEN IF ~loaded.ok
                       THEN [result |-> "False", session |-> s]
                       ELSE IF loaded.doc.kind = "object"
                       THEN [result |-> "True",
                             session |->
                                update_configuration(s, loaded.doc.val)]
                       ELSE [result |-> "True", session |-> s]
                  ELSE IF packet_type = 1
                  THEN IF ~loaded.ok
                       THEN [result |-> "False", session |-> s]
                       ELSE IF loaded.doc.kind = "object"
                               /\ "status" \in DOMAIN loaded.doc.val
                               /\ loaded.doc.val["status"] = "success"
                       THEN [result |-> "True", session |-> s]
                       ELSE [result |-> "False", session |-> s]
                  ELSE [result |-> "None", session |-> s]

\* json.loads was not reached.
NotParsed == [called |-> FALSE, payload |-> <<>>]

\* The payload _handle_server_response hands to json.loads: the slice
\* response[5:5+length] of a Config or Control frame, whatever its length.
json_loads_input(response) ==
    IF response = <<>>
    THEN NotParsed
    ELSE LET hdr == parse_packet_header(Slice(response, 0, 5)) IN
         IF ~hdr.ok
         THEN NotParsed
         ELSE IF hdr.packet_type \in {1, 3}
         THEN [called |-> TRUE,
               payload |-> Slice(response, 5,
                                 IF hdr.payload_length[1] > 0
                                 THEN Len(response)
                                 ELSE 5 + hdr.payload_length[2])]
         ELSE NotParsed

\* -------------------------------------------------- NetworkConfigManager
\* NetworkConfigManager.__init__: original_resolv_conf = None
NoBackup == [held |-> FALSE, text |-> <<>>]

\* Python's truth value of original_resolv_conf: None and "" are false.
Truthy(backup) == backup.held /\ backup.text # <<>>

\* backup_dns_config: the file's text is kept when the read succeeds.
backup_dns_config(backup, file, read_ok) ==
    IF read_ok THEN [held |-> TRUE, text |-> file] ELSE backup

\* restore_dns_config without its test of original_resolv_conf.
restore_dns_config_unguarded(backup, file, write_ok) ==
    IF write_ok THEN backup.text ELSE file

\* restore_dns_config: the file after it.
restore_dns_config(backup, file, write_ok) ==
    IF Truthy(backup) /\ write_ok THEN backup.text ELSE file

\* apply_dns_servers: the file after it (overwritten: a comment line when a
\* backup is held, then one nameserver line per server).
apply_dns_servers(backup, file, dns_servers, write_ok) ==
    IF write_ok
    THEN (IF Truthy(backup) THEN <<"# vpn">> ELSE <<>>) \o dns_servers
    ELSE file

\* The outcomes of one os.system("ip route ...") call: the command ran and
\* succeeded, ran and exited non-zero (os.system returns the status and
\* raises nothing), or os.system itself raised (a NUL in the command).
RouteOutcomes == {"ok", "nonzero", "raise"}

RECURSIVE add_routes_from(_, _, _, _, _, _)
add_routes_from(i, added, host, routes, interface, outcomes) ==
    IF i > Len(routes)
    THEN [added_routes |-> added, host_routes |-> host]
    ELSE add_routes_from(
           i + 1,
           IF outcomes[i] = "raise" THEN added
           ELSE Append(added, <<routes[i], interface>>),
           IF outcomes[i] = "ok" THEN host \cup {<<routes[i], interface>>}
           ELSE host,
           routes, interface, outcomes)

\* add_routes: every route is attempted in order; it is recorded unless
\* os.system raised.
add_routes(added, host, routes, interface, outcomes) ==
    add_routes_from(1, added, host, routes, interface, outcomes)

\* cleanup_routes that deletes nothing and keeps its record.
cleanup_routes_keeping(added, host) ==
    [added_routes |-> added, host_routes |-> host, deleted |-> <<>>]

\* cleanup_routes: a deletion is issued for every recorded route, then the
\* record is cleared.
cleanup_routes(added, host) ==
    [added_routes |-> <<>>,
     host_routes |-> host \ {added[i] : i \in 1..Len(added)},
     deleted |-> added]

\* ---------------------------------------------------------------- cleanup
\* The sub-step of one cleanup() call that raises, if any.
CleanupFaults == {"none", "restore", "down", "close", "tls_close"}

\* SSLVPNClient.cleanup, after it has cleared is_running and is_connected:
\* the state it leaves and the calls it issued. tls is the transport object
\* at the time of the call.
cleanup(added, host, backup, file, tun, tls, fault) ==
    LET r == cleanup_routes(added, host) IN
    [added_routes |-> r.added_routes,
     host_routes |-> r.host_routes,
     resolv_conf |-> restore_dns_config(backup, file, fault # "restore"),
     tun_interface |->
        IF tun = "None" \/ fault = "down" THEN tun
        ELSE IF fault = "close" THEN "down" ELSE "closed",
     tls_conn |->
        IF tls = "None" \/ fault = "tls_close" THEN tls ELSE "closed",
     ops |-> [route_del |-> Len(r.deleted),
              resolv_write |-> IF Truthy(backup) THEN 1 ELSE 0,
              tun_down |-> IF tun = "None" THEN 0 ELSE 1,
              tun_close |-> IF tun = "None" \/ fault = "down" THEN 0 ELSE 1,
              tls_close |-> IF tls = "None" THEN 0 ELSE 1]]

NoOps ==
    [route_del |-> 0, resolv_write |-> 0, tun_down |-> 0, tun_close |-> 0,
     tls_close |-> 0]

\* ------------------------------------------------------------------ state
VARIABLES
    pc,                   \* where start_vpn_connection (cli.py) stands
    auto_reconnect,       \* SSLVPNClient.auto_reconnect
    max_retries,          \* SSLVPNClient.max_retries
    current_retries,      \* SSLVPNClient.current_retries
    session,              \* SSLVPNClient.session (SSLVPNSession)
    tls_conn,             \* SSLVPNClient.tls_conn: "None" or the object's state
    tun_interface,        \* SSLVPNClient.tun_interface: "None" or its state
    is_running,           \* SSLVPNClient.is_running
    original_resolv_conf, \* NetworkConfigManager.original_resolv_conf
    added_routes,         \* NetworkConfigManager.added_routes
    resolv_conf,          \* the text of /etc/resolv.conf, as lines
    host_routes,          \* the routes the host holds, <<route, device>>
    attempts,             \* connection attempts connect() has made
    last_outcome,         \* what the latest attempt met
    saw_control_fail,     \* a Control frame with a failure status was read
    connect_result,       \* what connect() returned, "pending" before
    net_applied,          \* apply_network_configuration has been called
    cleanup_ops,          \* the calls the latest cleanup() issued
    cleanups_in_row,      \* cleanup() calls since the client last did else
    relay,                \* what start_tunnel met and did
    codec,                \* the codec's inputs and results (SpecCodec)
    updates,              \* the update_configuration calls made (SpecSession)
    net_hist              \* the NetworkConfigManager calls made (SpecNet)

clientVars ==
    <<pc, auto_reconnect, max_retries, current_retries, tls_conn,
      tun_interface, is_running, attempts, last_outcome, saw_control_fail,
      connect_result, net_applied, cleanup_ops, cleanups_in_row, relay>>

netVars == <<original_resolv_conf, added_routes, resolv_conf, host_routes>>

vars == <<clientVars, session, netVars, codec, updates, net_hist>>

\* ------------------------------------------------------------ environment
\* What the one read(1024) after the Auth frame may return.
Responses ==
    { <<>>,
      Frame(1, JsonDumps(ControlSuccess)),
      Frame(1, JsonDumps(ControlFail)),
      Frame(3, JsonDumps(ConfigA)),
      Frame(3, JsonDumps(ConfigA)) \o Frame(1, JsonDumps(ControlSuccess)),
      Frame(3, JsonDumps(ConfigRoutes)),
      Frame(3, JsonDumps(ConfigDns)),
      Frame(3, JsonDumps(JArray)),
      <<1, 0>>,
      SubSeq(Frame(1, JsonDumps(ControlSuccess)), 1, 7),
      Frame(0, <<69>>),
      Frame(7, <<>>) }

\* The statements of connect()'s try block that may raise.
ConnectFaults == {"tcp_error", "handshake_error", "write_error", "read_error"}

\* One attempt's inputs: a statement that raises and the sub-step of the
\* cleanup that then fails, or the bytes read.
ConnectInputs ==
    [outcome : ConnectFaults, response : {<<>>}, fault : CleanupFaults]
    \cup [outcome : {"response"}, response : Responses, fault : {"none"}]

\* The packets the virtual device may hold.
Packets == {<<69, 0>>}

\* What start_tunnel meets: the recoverable faults the transport would
\* raise, the packet the device holds, and the error the device read that
\* run_in_executor has submitted raises in its thread (OSError is none of
\* the three exceptions of the reconnect clause).
\* The payloads of the Data frames the gateway may write to the transport
\* while the client relays, in order.
DataStreams == {<<>>, << <<69>>, <<70, 0>> >>}

RelayInputs ==
    { in \in [faults : 0..MaxFaults, packet : Packets \cup {<<>>},
              device_fault : {"none", "OSError"}, data : DataStreams] :
        /\ in.device_fault # "none" => in.packet = <<>>
        /\ in.data # <<>> => (in.faults = 0 /\ in.packet = <<>>
                              /\ in.device_fault = "none") }

NoRelay ==
    [started |-> FALSE, faults_offered |-> 0, packet_offered |-> <<>>,
     device_fault |-> "none", data_offered |-> <<>>,
     tun_at_start |-> "None", device_read |-> "none",
     executor_reads |-> 0, tls_reads |-> 0, reconnects |-> 0,
     tls_written |-> <<>>, tun_written |-> <<>>]

NoCodec == [stage |-> "off"]

NoNetHist == [stage |-> "off"]

\* ------------------------------------------------------------------- Init
\* start_vpn_connection up to its try: a fresh SSLVPNClient with the
\* command line's auto_reconnect and max_retries.
Init ==
    /\ pc = "connect"
    /\ auto_reconnect \in BOOLEAN
    /\ max_retries \in 0..MaxRetriesBound
    /\ current_retries = 0
    /\ session = NewSession
    /\ tls_conn = "None"
    /\ tun_interface = "None"
    /\ is_running = FALSE
    /\ original_resolv_conf = NoBackup
    /\ added_routes = <<>>
    /\ resolv_conf \in {<<"nameserver isp">>, <<>>}
    /\ host_routes = {}
    /\ attempts = 0
    /\ last_outcome = [outcome |-> "none", response |-> <<>>,
                       parsed |-> NotParsed]
    /\ saw_control_fail = FALSE
    /\ connect_result = "pending"
    /\ net_applied = FALSE
    /\ cleanup_ops = NoOps
    /\ cleanups_in_row = 0
    /\ relay = NoRelay
    /\ codec = NoCodec
    /\ updates = <<>>
    /\ net_hist = NoNetHist

\* Whether bytes read are a Control frame whose status is not success.
IsControlFailure(response) ==
    LET hdr == parse_packet_header(Slice(response, 0, 5)) IN
    /\ hdr.ok
    /\ hdr.packet_type = 1
    /\ LET loaded == JsonLoads(Slice(response, 5, 5 + hdr.payload_length[2]))
       IN  /\ loaded.ok
           /\ loaded.doc.kind = "object"
           /\ ~("status" \in DOMAIN loaded.doc.val
                /\ loaded.doc.val["status"] = "success")

\* ---------------------------------------------------------------- connect
\* One turn of connect()'s while loop. A raised exception runs the except
\* block: cleanup(), then a retry after the sleep or return False. A true
\* answer of _handle_server_response returns True. A false one leaves the
\* try block without an exception, and the loop starts its next turn.
ConnectAttempt ==
    /\ pc = "connect"
    /\ attempts < MaxAttempts
    /\ \E in \in ConnectInputs :
         LET tls1 == IF in.outcome = "tcp_error" THEN tls_conn
                     ELSE IF in.outcome = "handshake_error" THEN "created"
                     ELSE "open"
             raised == in.outcome # "response"
             h == handle_server_response(session, in.response)
             cl == cleanup(added_routes, host_routes, original_resolv_conf,
                           resolv_conf, tun_interface, tls1, in.fault)
             retry == auto_reconnect /\ current_retries < max_retries
         IN
         /\ attempts' = attempts + 1
         /\ last_outcome' =
               [outcome |-> in.outcome, response |-> in.response,
                parsed |-> IF raised THEN NotParsed
                           ELSE json_loads_input(in.response)]
         /\ saw_control_fail' =
                (saw_control_fail
                 \/ (~raised /\ IsControlFailure(in.response)))
         /\ IF raised
            THEN /\ is_running' = FALSE
                 /\ session' = [session EXCEPT !.is_connected = FALSE]
                 /\ added_routes' = cl.added_routes
                 /\ host_routes' = cl.host_routes
                 /\ resolv_conf' = cl.resolv_conf
                 /\ tun_interface' = cl.tun_interface
                 /\ tls_conn' = cl.tls_conn
                 /\ cleanup_ops' = cl.ops
                 /\ cleanups_in_row' = IF retry THEN 0 ELSE 1
                 /\ current_retries' =
                        IF retry THEN current_retries + 1 ELSE current_retries
                 /\ pc' = IF retry THEN "retry_sleep" ELSE "finally"
                 /\ connect_result' = IF retry THEN "pending" ELSE "False"
            ELSE /\ tls_conn' = tls1
                 /\ session' = IF h.result = "True"
                               THEN [h.session EXCEPT !.is_connected = TRUE]
                               ELSE h.session
                 /\ current_retries' =
                        IF h.result = "True" THEN 0 ELSE current_retries
                 /\ pc' = IF h.result = "True" THEN "setup_tun" ELSE "connect"
                 /\ connect_result' =
                        IF h.result = "True" THEN "True" ELSE "pending"
                 /\ cleanups_in_row' = 0
                 /\ UNCHANGED <<is_running, added_routes, host_routes,
                                resolv_conf, tun_interface, cleanup_ops>>
    /\ UNCHANGED <<auto_reconnect, max_retries, original_resolv_conf,
                   net_applied, relay, codec, updates, net_hist>>

\* The end of asyncio.sleep(retry_delay) in connect(): continue.
RetrySleepDone ==
    /\ pc = "retry_sleep"
    /\ pc' = "connect"
    /\ UNCHANGED <<auto_reconnect, max_retries, current_retries, tls_conn,
                   tun_interface, is_running, attempts, last_outcome,
                   saw_control_fail, connect_result, net_applied, cleanup_ops,
                   cleanups_in_row, relay, session, netVars, codec, updates,
                   net_hist>>

\* ------------------------------------------------------------ the device
\* setup_tun_interface: the constructor or up() may raise, which makes it
\* return False; the caller then goes to its finally block. The address
\* given to the device ("ip addr add", its status ignored) is not tracked.
DoSetupTun(ok_pc, fail_pc) ==
    /\ \E outcome \in {"ok", "ctor_error", "up_error"} :
         /\ tun_interface' = IF outcome = "ctor_error" THEN tun_interface
                             ELSE IF outcome = "up_error" THEN "created"
                             ELSE "up"
         /\ pc' = IF outcome = "ok" THEN ok_pc ELSE fail_pc
    /\ cleanups_in_row' = 0
    /\ UNCHANGED <<auto_reconnect, max_retries, current_retries, tls_conn,
                   is_running, attempts, last_outcome, saw_control_fail,
                   connect_result, net_applied, cleanup_ops, relay, session,
                   netVars, codec, updates>>

\* start_vpn_connection: if connect() returned True, setup_tun_interface().
SetupTun ==
    /\ pc = "setup_tun"
    /\ DoSetupTun("apply_net", "finally")
    /\ UNCHANGED net_hist

\* apply_network_configuration: the backup, then the DNS servers and the
\* routes of the session when it holds any.
DoApplyNet(next_pc) ==
    /\ \E read_ok \in BOOLEAN, write_ok \in BOOLEAN,
          outcomes \in [1..Len(session.routes) -> RouteOutcomes] :
         LET backup == backup_dns_config(original_resolv_conf, resolv_conf,
                                         read_ok)
             added == add_routes(added_routes, host_routes, session.routes,
                                 "tun0", outcomes)
         IN
         /\ original_resolv_conf' = backup
         /\ resolv_conf' =
                IF session.dns_servers # <<>>
                THEN apply_dns_servers(backup, resolv_conf,
                                       session.dns_servers, write_ok)
                ELSE resolv_conf
         /\ added_routes' = IF session.routes # <<>>
                            THEN added.added_routes ELSE added_routes
         /\ host_routes' = IF session.routes # <<>>
                           THEN added.host_routes ELSE host_routes
    /\ net_applied' = TRUE
    /\ cleanups_in_row' = 0
    /\ pc' = next_pc
    /\ UNCHANGED <<auto_reconnect, max_retries, current_retries, tls_conn,
                   tun_interface, is_running, attempts, last_outcome,
                   saw_control_fail, connect_result, cleanup_ops, relay,
                   session, codec, updates>>

\* start_vpn_connection: if the device was set up,
\* apply_network_configuration().
ApplyNet ==
    /\ pc = "apply_net"
    /\ DoApplyNet("start_tunnel")
    /\ UNCHANGED net_hist

\* ------------------------------------------------------------- the tunnel
\* start_tunnel. After its guard it sets is_running and enters the loop,
\* whose first statement hands the Future that run_in_executor returns to
\* asyncio.create_task. create_task takes a coroutine only and raises
\* TypeError for a Future, so the first turn of the loop ends there: no
\* transport read is issued, nothing is forwarded, and the handler for
\* connection faults (which names three other exceptions) is passed over.
\* The outer handler logs the error and the finally block runs cleanup().
\* The device read that run_in_executor had already submitted stays with
\* the executor's thread.
\* Offered by the environment: the consecutive recoverable faults the
\* transport would raise on its next reads, a packet the device holds, and
\* the Data frames the gateway writes. relay keeps them, with the device's
\* state when is_running was set (tun_at_start) and what has become of the
\* submitted device read when start_tunnel returns (device_read): it has
\* raised, it has returned the packet the device held, or it is still
\* blocked in its thread. Its Future is awaited by nothing.
DoStartTunnel(next_pc) ==
    /\ \E in \in RelayInputs, fault \in CleanupFaults :
         LET cl == cleanup(added_routes, host_routes, original_resolv_conf,
                           resolv_conf, tun_interface, tls_conn, fault)
         IN
         IF ~session.is_connected \/ tun_interface = "None"
         THEN /\ relay' = relay
              /\ UNCHANGED <<is_running, session, added_routes, host_routes,
                             resolv_conf, tun_interface, tls_conn,
                             cleanup_ops, cleanups_in_row>>
         ELSE /\ relay' = [started |-> TRUE, faults_offered |-> in.faults,
                           packet_offered |-> in.packet,
                           device_fault |-> in.device_fault,
                           data_offered |-> in.data,
                           tun_at_start |-> tun_interface,
                           device_read |->
                              IF in.device_fault # "none" THEN "raised"
                              ELSE IF in.packet # <<>> THEN "returned"
                              ELSE "in_flight",
                           executor_reads |-> 1,
                           tls_reads |-> 0, reconnects |-> 0,
                           tls_written |-> <<>>, tun_written |-> <<>>]
              /\ is_running' = FALSE
              /\ session' = [session EXCEPT !.is_connected = FALSE]
              /\ added_routes' = cl.added_routes
              /\ host_routes' = cl.host_routes
              /\ resolv_conf' = cl.resolv_conf
              /\ tun_interface' = cl.tun_interface
              /\ tls_conn' = cl.tls_conn
              /\ cleanup_ops' = cl.ops
              /\ cleanups_in_row' = 1
    /\ pc' = next_pc
    /\ UNCHANGED <<auto_reconnect, max_retries, current_retries, attempts,
                   last_outcome, saw_control_fail, connect_result,
                   net_applied, original_resolv_conf, codec, updates>>

\* start_vpn_connection: await start_tunnel().
StartTunnel ==
    /\ pc = "start_tunnel"
    /\ DoStartTunnel("finally")
    /\ UNCHANGED net_hist

\* One call of cleanup().
DoCleanup(next_pc) ==
    /\ \E fault \in CleanupFaults :
         LET cl == cleanup(added_routes, host_routes, original_resolv_conf,
                           resolv_conf, tun_interface, tls_conn, fault)
         IN
         /\ is_running' = FALSE
         /\ session' = [session EXCEPT !.is_connected = FALSE]
         /\ added_routes' = cl.added_routes
         /\ host_routes' = cl.host_routes
         /\ resolv_conf' = cl.resolv_conf
         /\ tun_interface' = cl.tun_interface
         /\ tls_conn' = cl.tls_conn
         /\ cleanup_ops' = cl.ops
    /\ cleanups_in_row' = cleanups_in_row + 1
    /\ pc' = next_pc
    /\ UNCHANGED <<auto_reconnect, max_retries, current_retries, attempts,
                   last_outcome, saw_control_fail, connect_result,
                   net_applied, original_resolv_conf, relay, codec, updates>>

\* The finally block of start_vpn_connection: cleanup().
FinalCleanup ==
    /\ pc = "finally"
    /\ DoCleanup("done")
    /\ UNCHANGED net_hist

Next ==
    \/ ConnectAttempt
    \/ RetrySleepDone
    \/ SetupTun
    \/ ApplyNet
    \/ StartTunnel
    \/ FinalCleanup

Spec == Init /\ [][Next]_vars

\* ----------------------------------------------------- claims under Spec
\* Whether bytes read begin with a Control frame whose status is success.
IsControlSuccess(response) ==
    LET hdr == parse_packet_header(Slice(response, 0, 5)) IN
    /\ hdr.ok
    /\ hdr.packet_type = 1
    /\ LET loaded == JsonLoads(Slice(response, 5, 5 + hdr.payload_length[2]))
       IN  /\ loaded.ok
           /\ loaded.doc.kind = "object"
           /\ "status" \in DOMAIN loaded.doc.val
           /\ loaded.doc.val["status"] = "success"

\* C1: once a Control frame with a failure status has been read during
\* authentication, connect() does not return success and
\* apply_network_configuration is not invoked in that session.
C1_ControlFailureEndsSession ==
    saw_control_fail => (connect_result # "True" /\ ~net_applied)

\* C2: with auto_reconnect and max_retries = 2, when the transport raises
\* three consecutive recoverable faults during relaying, start_tunnel makes
\* exactly two reconnect attempts and then ends with teardown and
\* connected = false.
C2_TwoReconnectsThenTeardown ==
    (relay.started /\ auto_reconnect /\ max_retries = 2
     /\ relay.faults_offered = 3)
        => (relay.reconnects = 2 /\ ~session.is_connected /\ ~is_running)

\* What read(1024) returns in scenario A: the whole Config frame, alone or
\* together with the Control frame that follows it.
ScenarioA ==
    { Frame(3, JsonDumps(ConfigA)),
      Frame(3, JsonDumps(ConfigA)) \o Frame(1, JsonDumps(ControlSuccess)) }

\* C3: when the answer to the Auth frame is the Config frame
\* {interface_ip, routes, dns_servers} followed by a Control frame with
\* status success (the read returning the whole Config frame), connect()
\* returns success and the session holds exactly that interface address,
\* those routes and those DNS servers; connected is true when it returns.
C3_ConfigThenSuccess ==
    (last_outcome.outcome = "response" /\ last_outcome.response \in ScenarioA)
        => /\ connect_result = "True"
           /\ session.interface_ip = ConfigA.val["interface_ip"]
           /\ session.routes = ConfigA.val["routes"]
           /\ session.dns_servers = ConfigA.val["dns_servers"]
           /\ (pc = "setup_tun" => session.is_connected)

C3_Witness ==
    /\ pc = "setup_tun"
    /\ last_outcome.response =
          Frame(3, JsonDumps(ConfigA)) \o Frame(1, JsonDumps(ControlSuccess))
    /\ session.is_connected
    /\ session.routes = <<"10.8.0.0/24">>

\* C4: when the device holds a packet before any transport data arrives
\* and the transport is sound, start_tunnel writes that packet to the
\* transport exactly once as a Data frame (type 0, the packet's length) and
\* issues a transport read again on the following iteration.
C4_DevicePacketForwardedOnce ==
    (relay.started /\ relay.packet_offered # <<>> /\ relay.faults_offered = 0)
        => /\ relay.tls_written =
                  <<create_data_packet(relay.packet_offered).bytes>>
           /\ relay.tls_reads >= 2

\* C5: a cleanup() called right after another cleanup() issues no call at
\* all: no route deletion, no resolver write, no device down or close and
\* no transport close.
C5_SecondCleanupDoesNothing ==
    cleanups_in_row >= 2 => cleanup_ops = NoOps

\* C6: connect() makes at most max_retries + 1 connection attempts with
\* auto_reconnect, and exactly one without, whatever makes an attempt fail.
C6_AttemptsBounded ==
    attempts <= (IF auto_reconnect THEN max_retries + 1 ELSE 1)

\* C7: connected is true only if the current attempt read a Control frame
\* with status success.
C7_ConnectedOnlyAfterControlSuccess ==
    session.is_connected
        => (last_outcome.outcome = "response"
            /\ IsControlSuccess(last_outcome.response))

\* -------------------------------------------------------------- SpecCodec
\* The codec on its own: a header is built for a type and a length, or a
\* Data frame for a payload, and its first five bytes are parsed back.
\* The client's other variables stay as constructed.
HalfSamples == {0, 1, 255, 256, 65535}

\* Lengths over the whole 32-bit range, and one past it (hi half 65536).
LengthSamples == (HalfSamples \cup {65536}) \X HalfSamples

TypeSamples == {0, 1, 2, 3, 255, 256}

RECURSIVE BytesUpTo(_)
\* The byte strings over {0, 255} of length at most n.
BytesUpTo(n) ==
    IF n = 0 THEN {<<>>}
    ELSE LET shorter == BytesUpTo(n - 1)
         IN  shorter \cup {Append(p, b) : p \in shorter, b \in {0, 255}}

Idle ==
    /\ pc = "off"
    /\ auto_reconnect = FALSE
    /\ max_retries = 0
    /\ current_retries = 0
    /\ tls_conn = "None"
    /\ tun_interface = "None"
    /\ is_running = FALSE
    /\ attempts = 0
    /\ last_outcome = [outcome |-> "none", response |-> <<>>,
                       parsed |-> NotParsed]
    /\ saw_control_fail = FALSE
    /\ connect_result = "pending"
    /\ net_applied = FALSE
    /\ cleanup_ops = NoOps
    /\ cleanups_in_row = 0
    /\ relay = NoRelay

InitCodec ==
    /\ Idle
    /\ session = NewSession
    /\ original_resolv_conf = NoBackup
    /\ added_routes = <<>>
    /\ resolv_conf = <<>>
    /\ host_routes = {}
    /\ updates = <<>>
    /\ net_hist = NoNetHist
    /\ codec \in
         [stage : {"input"}, kind : {"header"}, packet_type : TypeSamples,
          length : LengthSamples, payload : {<<>>}, encoded : {<<>>},
          raised : {FALSE}, decoded : {Raised("none")}]
         \cup
         {[stage |-> "input", kind |-> "data", packet_type |-> 0,
           length |-> U32(Len(p)), payload |-> p, encoded |-> <<>>,
           raised |-> FALSE, decoded |-> Raised("none")]
            : p \in BytesUpTo(MaxPayload)}
         \cup
         {[stage |-> "input", kind |-> "auth", packet_type |-> 2,
           length |-> U32(Len(JsonDumps(AuthDoc))),
           payload |-> JsonDumps(AuthDoc), encoded |-> <<>>,
           raised |-> FALSE, decoded |-> Raised("none")]}

\* create_packet_header(packet_type, length)
EncodeHeader ==
    /\ codec.stage = "input"
    /\ codec.kind = "header"
    /\ LET header == create_packet_header(codec.packet_type, codec.length)
       IN  codec' = [codec EXCEPT
                       !.stage = "encoded",
                       !.raised = ~header.ok,
                       !.encoded = IF header.ok THEN header.bytes ELSE <<>>]
    /\ UNCHANGED <<clientVars, session, netVars, updates, net_hist>>

\* create_data_packet(payload)
EncodeData ==
    /\ codec.stage = "input"
    /\ codec.kind = "data"
    /\ LET packet == create_data_packet(codec.payload)
       IN  codec' = [codec EXCEPT
                       !.stage = "encoded",
                       !.raised = ~packet.ok,
                       !.encoded = IF packet.ok THEN packet.bytes ELSE <<>>]
    /\ UNCHANGED <<clientVars, session, netVars, updates, net_hist>>

\* create_auth_packet(username, password)
EncodeAuth ==
    /\ codec.stage = "input"
    /\ codec.kind = "auth"
    /\ LET packet == create_auth_packet(AuthDoc.val["username"],
                                        AuthDoc.val["password"])
       IN  codec' = [codec EXCEPT
                       !.stage = "encoded",
                       !.raised = ~packet.ok,
                       !.encoded = IF packet.ok THEN packet.bytes ELSE <<>>]
    /\ UNCHANGED <<clientVars, session, netVars, updates, net_hist>>

\* parse_packet_header(encoded[:5])
DecodeHeader ==
    /\ codec.stage = "encoded"
    /\ ~codec.raised
    /\ codec' = [codec EXCEPT
                   !.stage = "decoded",
                   !.decoded = parse_packet_header(Slice(codec.encoded, 0, 5))]
    /\ UNCHANGED <<clientVars, session, netVars, updates, net_hist>>

NextCodec ==
    \/ EncodeHeader
    \/ EncodeData
    \/ EncodeAuth
    \/ DecodeHeader

SpecCodec == InitCodec /\ [][NextCodec]_vars

\* C8: for a frame type in 0..3 and a length in the 32-bit unsigned range,
\* the header parsed back from the encoding is exactly (type, length); the
\* header is 5 bytes, the type first and the length's lowest byte last, and
\* an encoded Data frame is its header followed by exactly the payload.
C8_HeaderRoundTrip ==
    (codec.stage = "decoded" /\ codec.packet_type \in 0..3
     /\ IsU32(codec.length))
        => /\ codec.decoded.ok
           /\ codec.decoded.packet_type = codec.packet_type
           /\ codec.decoded.payload_length = codec.length
           /\ Len(codec.encoded) = 5 + Len(codec.payload)
           /\ codec.encoded[1] = codec.packet_type
           /\ codec.encoded[5] = codec.length[2] % 256
           /\ Slice(codec.encoded, 5, Len(codec.encoded)) = codec.payload
           /\ (codec.kind # "header" =>
                 codec.decoded.payload_length = U32(Len(codec.payload)))

C8_Witness ==
    /\ codec.stage = "decoded"
    /\ codec.packet_type = 3
    /\ codec.length = <<65535, 65535>>
    /\ codec.decoded.ok
    /\ codec.encoded = <<3, 255, 255, 255, 255>>

\* ------------------------------------------------------------ SpecSession
\* SSLVPNSession on its own: a run of update_configuration calls with
\* partial configurations. updates keeps the latest call: its argument and
\* the session before it.
RouteLists == {<<>>, <<"10.8.0.0/24">>, <<"10.8.0.0/24", "10.9.0.0/16">>}

DnsLists == {<<>>, <<"10.8.0.1">>}

Addresses == {"10.8.0.2"}

\* Every dict over a subset of the three keys.
PartialConfigs ==
    { [k \in D |-> full[k]] :
        full \in [routes : RouteLists, dns_servers : DnsLists,
                  interface_ip : Addresses],
        D \in SUBSET ConfigKeys }

InitSession ==
    /\ Idle
    /\ session = NewSession
    /\ original_resolv_conf = NoBackup
    /\ added_routes = <<>>
    /\ resolv_conf = <<>>
    /\ host_routes = {}
    /\ codec = NoCodec
    /\ net_hist = NoNetHist
    /\ updates = [count |-> 0, config_data |-> << >>, before |-> NewSession]

\* session.update_configuration(config_data)
UpdateConfiguration ==
    /\ updates.count < MaxUpdates
    /\ \E config_data \in PartialConfigs :
         /\ session' = update_configuration(session, config_data)
         /\ updates' = [count |-> updates.count + 1,
                        config_data |-> config_data, before |-> session]
    /\ UNCHANGED <<clientVars, netVars, codec, net_hist>>

NextSession == UpdateConfiguration

SpecSession == InitSession /\ [][NextSession]_vars

\* C9: an update leaves every field it does not mention as it was, and
\* from every session a routes-only update followed by a dns_servers-only
\* update gives the same session as the two in the opposite order.
C9_FieldwiseMerge ==
    /\ updates.count > 0 =>
          /\ \A k \in ConfigKeys \ DOMAIN updates.config_data :
                session[k] = updates.before[k]
          /\ session.is_connected = updates.before.is_connected
    /\ \A R \in RouteLists, D \in DnsLists :
          update_configuration(
              update_configuration(session, [routes |-> R]),
              [dns_servers |-> D])
          = update_configuration(
              update_configuration(session, [dns_servers |-> D]),
              [routes |-> R])

C9_Witness ==
    /\ updates.count >= 2
    /\ DOMAIN updates.config_data = {"routes"}
    /\ updates.before.dns_servers = <<"10.8.0.1">>
    /\ session.dns_servers = <<"10.8.0.1">>
    /\ session.routes = <<"10.8.0.0/24", "10.9.0.0/16">>

\* ---------------------------------------------------------------- SpecNet
\* NetworkConfigManager on its own: any run of its five methods. net_hist
\* keeps the calls made, the routes whose "ip route add" succeeded since
\* the last cleanup_routes, the deletions the latest cleanup_routes
\* issued, the file's text before the first call (pre_tunnel), the file and
\* the backup as the latest call found them (before), and the times
\* restore_dns_config wrote the file since the latest backup was taken
\* (restore_writes).
InitNet ==
    /\ Idle
    /\ session = NewSession
    /\ original_resolv_conf = NoBackup
    /\ added_routes = <<>>
    /\ resolv_conf \in {<<"nameserver isp">>, <<>>}
    /\ host_routes = {}
    /\ codec = NoCodec
    /\ updates = <<>>
    /\ net_hist = [stage |-> "on", count |-> 0, last_op |-> "none",
                   succeeded |-> {}, deleted |-> <<>>, reverts_in_row |-> 0,
                   pre_tunnel |-> resolv_conf,
                   before |-> [file |-> resolv_conf, backup |-> NoBackup],
                   restore_writes |-> 0]

\* The file and the backup as a call finds them.
NetBefore == [file |-> resolv_conf, backup |-> original_resolv_conf]

\* backup_dns_config()
NetBackup ==
    /\ net_hist.count < MaxNetOps
    /\ \E read_ok \in BOOLEAN :
         /\ original_resolv_conf' =
               backup_dns_config(original_resolv_conf, resolv_conf, read_ok)
         /\ net_hist' = [net_hist EXCEPT
                           !.count = @ + 1, !.last_op = "backup",
                           !.reverts_in_row = 0, !.before = NetBefore,
                           !.restore_writes = IF read_ok THEN 0 ELSE @]
    /\ UNCHANGED <<clientVars, session, added_routes, resolv_conf,
                   host_routes, codec, updates>>

\* apply_dns_servers(dns_servers)
NetApplyDns ==
    /\ net_hist.count < MaxNetOps
    /\ \E dns_servers \in DnsLists, write_ok \in BOOLEAN :
         resolv_conf' = apply_dns_servers(original_resolv_conf, resolv_conf,
                                          dns_servers, write_ok)
    /\ net_hist' = [net_hist EXCEPT !.count = @ + 1, !.last_op = "apply_dns",
                                    !.reverts_in_row = 0,
                                    !.before = NetBefore]
    /\ UNCHANGED <<clientVars, session, original_resolv_conf, added_routes,
                   host_routes, codec, updates>>

\* add_routes(routes, 'tun0')
NetAddRoutes ==
    /\ net_hist.count < MaxNetOps
    /\ \E routes \in RouteLists :
         \E outcomes \in [1..Len(routes) -> RouteOutcomes] :
            LET r == add_routes(added_routes, host_routes, routes, "tun0",
                                outcomes)
            IN  /\ added_routes' = r.added_routes
                /\ host_routes' = r.host_routes
                /\ net_hist' =
                      [net_hist EXCEPT
                         !.count = @ + 1, !.last_op = "add_routes",
                         !.reverts_in_row = 0, !.before = NetBefore,
                         !.succeeded =
                            @ \cup {<<routes[i], "tun0">> :
                                      i \in {j \in 1..Len(routes) :
                                               outcomes[j] = "ok"}}]
    /\ UNCHANGED <<clientVars, session, original_resolv_conf, resolv_conf,
                   codec, updates>>

\* cleanup_routes()
NetCleanupRoutes ==
    /\ net_hist.count < MaxNetOps
    /\ LET r == cleanup_routes(added_routes, host_routes)
       IN  /\ added_routes' = r.added_routes
           /\ host_routes' = r.host_routes
           /\ net_hist' = [net_hist EXCEPT
                             !.count = @ + 1, !.last_op = "cleanup_routes",
                             !.reverts_in_row = @ + 1,
                             !.before = NetBefore,
                             !.succeeded = {}, !.deleted = r.deleted]
    /\ UNCHANGED <<clientVars, session, original_resolv_conf, resolv_conf,
                   codec, updates>>

\* restore_dns_config()
NetRestore ==
    /\ net_hist.count < MaxNetOps
    /\ \E write_ok \in BOOLEAN :
         /\ resolv_conf' =
               restore_dns_config(original_resolv_conf, resolv_conf, write_ok)
         /\ net_hist' = [net_hist EXCEPT
                           !.count = @ + 1, !.last_op = "restore",
                           !.reverts_in_row = 0, !.before = NetBefore,
                           !.restore_writes =
                              IF Truthy(original_resolv_conf) /\ write_ok
                              THEN @ + 1 ELSE @]
    /\ UNCHANGED <<clientVars, session, original_resolv_conf, added_routes,
                   host_routes, codec, updates>>

NextNet ==
    \/ NetBackup
    \/ NetApplyDns
    \/ NetAddRoutes
    \/ NetCleanupRoutes
    \/ NetRestore

SpecNet == InitNet /\ [][NextNet]_vars

\* C10: the tracked routes are exactly the routes whose addition succeeded
\* (since the last reversal); a reversal issues a deletion for exactly
\* those routes and leaves nothing tracked, and a second reversal right
\* after it issues no deletion.
C10_TrackedAreTheSucceeded ==
    /\ {added_routes[i] : i \in 1..Len(added_routes)} = net_hist.succeeded
    /\ net_hist.last_op = "cleanup_routes" => added_routes = <<>>
    /\ net_hist.reverts_in_row >= 2 => net_hist.deleted = <<>>

\* C11: restore_dns_config leaves /etc/resolv.conf as it found it whenever
\* no backup is held (original_resolv_conf is None: backup_dns_config was
\* never called, or no capture has succeeded), after any run of the
\* manager's methods.
C11_RestoreWithoutBackupKeepsFile ==
    (net_hist.last_op = "restore" /\ ~net_hist.before.backup.held)
       => resolv_conf = net_hist.before.file

\* A restore with no backup held, on a file apply_dns_servers has written.
C11_Witness ==
    /\ net_hist.last_op = "restore"
    /\ ~net_hist.before.backup.held
    /\ resolv_conf # <<>>
    /\ resolv_conf # net_hist.pre_tunnel

\* C19: a backup is written back at most once: once restore_dns_config has
\* written the file from the backup no backup is held, so the calls that
\* follow one backup_dns_config write the file from it at most one time.
C19_BackupWrittenBackAtMostOnce ==
    /\ net_hist.restore_writes <= 1
    /\ (net_hist.last_op = "restore" /\ net_hist.restore_writes >= 1)
          => ~original_resolv_conf.held

\* C20: a backup that is held is the text /etc/resolv.conf had before the
\* manager's first call: it is never replaced by text apply_dns_servers
\* wrote.
C20_BackupIsPreTunnelContent ==
    original_resolv_conf.held
       => original_resolv_conf.text = net_hist.pre_tunnel

\* C12 (SpecCodec): parsing a header whose type byte is outside 0..3 fails:
\* such a header is never handed back as a decoded (type, length).
C12_UnknownTypeRejected ==
    (codec.stage = "decoded" /\ codec.encoded[1] \notin 0..3)
       => ~codec.decoded.ok

\* The bytes read hold a whole header that announces more payload bytes
\* than follow it.
IsTruncatedFrame(response) ==
    /\ Len(response) >= 5
    /\ LET hdr == parse_packet_header(Slice(response, 0, 5))
       IN  /\ hdr.ok
           /\ \/ hdr.payload_length[1] > 0
              \/ hdr.payload_length[2] > Len(response) - 5

\* C13 (Spec): when the bytes read hold a valid header but fewer payload
\* bytes than it announces, no shortened payload is processed: a shortened
\* Config or Control payload is never handed to the JSON parser.
C13_TruncatedPayloadNotParsed ==
    (last_outcome.outcome = "response"
     /\ IsTruncatedFrame(last_outcome.response))
       => ~last_outcome.parsed.called

\* C14 (Spec): cleanup() attempts each of its sub-steps whichever of them
\* fails: a call that brings the device down (and may fail there) also
\* closes the device.
C14_CleanupStepsIndependent ==
    cleanup_ops.tun_close = cleanup_ops.tun_down

C16_ResumesAfterReconnect ==
    (relay.started /\ auto_reconnect /\ max_retries >= 1
     /\ relay.faults_offered = 1 /\ relay.device_fault = "none")
       => /\ relay.reconnects = 1
          /\ is_running
          /\ session.is_connected
          /\ tun_interface = "up"
          /\ Len(added_routes) = Len(session.routes)

\* C18 (Spec): current_retries stays within 0..max_retries; it counts each
\* connection attempt made again exactly once (while connect() is at work
\* it equals the attempts made so far), and it is zero once an attempt has
\* succeeded.
C18_RetryCounterDiscipline ==
    /\ current_retries \in 0..max_retries
    /\ pc \in {"connect", "retry_sleep"} => current_retries = attempts
    /\ connect_result = "True" => current_retries = 0

\* ---------------------------------------------------------------- SpecApi
\* SSLVPNClient used as a library (pysslvpn/__init__.py exports it): its
\* coroutines connect, setup_tun_interface, apply_network_configuration,
\* start_tunnel and cleanup called in any order, one at a time. pc is
\* "connect" or "retry_sleep" while connect() is at work, and any other
\* value when the caller has the next move; net_hist counts the calls.
InitApi ==
    /\ pc = "idle"
    /\ auto_reconnect \in BOOLEAN
    /\ max_retries \in 0..MaxRetriesBound
    /\ current_retries = 0
    /\ session = NewSession
    /\ tls_conn = "None"
    /\ tun_interface = "None"
    /\ is_running = FALSE
    /\ original_resolv_conf = NoBackup
    /\ added_routes = <<>>
    /\ resolv_conf \in {<<"nameserver isp">>, <<>>}
    /\ host_routes = {}
    /\ attempts = 0
    /\ last_outcome = [outcome |-> "none", response |-> <<>>,
                       parsed |-> NotParsed]
    /\ saw_control_fail = FALSE
    /\ connect_result = "pending"
    /\ net_applied = FALSE
    /\ cleanup_ops = NoOps
    /\ cleanups_in_row = 0
    /\ relay = NoRelay
    /\ codec = NoCodec
    /\ updates = <<>>
    /\ net_hist = [stage |-> "api", calls |-> 0]

\* No coroutine of the client is running and the caller may make a call.
CallerTurn ==
    /\ pc \notin {"connect", "retry_sleep"}
    /\ net_hist.calls < MaxApiCalls

\* The call is counted.
Called == net_hist' = [net_hist EXCEPT !.calls = @ + 1]

\* await client.connect(): its loop is entered.
ApiConnect ==
    /\ CallerTurn
    /\ Called
    /\ pc' = "connect"
    /\ connect_result' = "pending"
    /\ UNCHANGED <<auto_reconnect, max_retries, current_retries, tls_conn,
                   tun_interface, is_running, attempts, last_outcome,
                   saw_control_fail, net_applied, cleanup_ops,
                   cleanups_in_row, relay, session, netVars, codec, updates>>

\* client.setup_tun_interface()
ApiSetupTun == CallerTurn /\ Called /\ DoSetupTun("idle", "idle")

\* client.apply_network_configuration()
ApiApplyNet == CallerTurn /\ Called /\ DoApplyNet("idle")

\* await client.start_tunnel()
ApiStartTunnel == CallerTurn /\ Called /\ DoStartTunnel("idle")

\* await client.cleanup()
ApiCleanup == CallerTurn /\ Called /\ DoCleanup("idle")

NextApi ==
    \/ ApiConnect
    \/ ConnectAttempt
    \/ RetrySleepDone
    \/ ApiSetupTun
    \/ ApiApplyNet
    \/ ApiStartTunnel
    \/ ApiCleanup

SpecApi == InitApi /\ [][NextApi]_vars

\* C17 (SpecApi): the cleanup connect() runs after a failed attempt only
\* releases what that attempt had acquired: it leaves the tracked routes,
\* the host's routes, /etc/resolv.conf, the resolver backup and the device
\* as they were, in whatever state connect() was called.
C17_FailedAttemptKeepsNetwork ==
    [][(pc = "connect" /\ pc' \in {"retry_sleep", "finally"})
          => /\ added_routes' = added_routes
             /\ host_routes' = host_routes
             /\ resolv_conf' = resolv_conf
             /\ original_resolv_conf' = original_resolv_conf
             /\ tun_interface' = tun_interface]_vars

\* C21 (Spec): once the teardown is over the session is reset: no routes,
\* no DNS servers, no interface address, not connected.
C21_SessionResetAfterTeardown ==
    pc = "done" => session = NewSession

\* ---------------------------------------------------------- SpecInterrupt
\* start_vpn_connection under asyncio.run, with an interrupt (Ctrl-C) that
\* arrives while connect() sleeps before a retry. asyncio cancels the main
\* task: CancelledError is raised at the await of asyncio.sleep, which
\* stands in connect()'s except clause, so it leaves connect() and reaches
\* the finally block of start_vpn_connection.

\* An interrupt after which connect() goes on with its loop.
InterruptSwallowed ==
    /\ pc = "retry_sleep"
    /\ pc' = "connect"
    /\ connect_result' = "Cancelled"
    /\ UNCHANGED <<auto_reconnect, max_retries, current_retries, tls_conn,
                   tun_interface, is_running, attempts, last_outcome,
                   saw_control_fail, net_applied, cleanup_ops,
                   cleanups_in_row, relay, session, netVars, codec, updates,
                   net_hist>>

\* The interrupt during asyncio.sleep(retry_delay) in connect().
Interrupt ==
    /\ pc = "retry_sleep"
    /\ pc' = "finally"
    /\ connect_result' = "Cancelled"
    /\ UNCHANGED <<auto_reconnect, max_retries, current_retries, tls_conn,
                   tun_interface, is_running, attempts, last_outcome,
                   saw_control_fail, net_applied, cleanup_ops,
                   cleanups_in_row, relay, session, netVars, codec, updates,
                   net_hist>>

NextInterrupt ==
    \/ Next
    \/ Interrupt

\* The event loop keeps running the cancelled task, so the finally block's
\* cleanup() is not put off for ever.
SpecInterrupt ==
    Init /\ [][NextInterrupt]_vars /\ WF_vars(FinalCleanup)

\* C22 (SpecInterrupt): after an interrupt that arrives during the pause
\* before a retry no further connection attempt is made, and cleanup()
\* eventually runs (the teardown of start_vpn_connection completes).
C22_InterruptLeadsToTeardown ==
    /\ [][connect_result = "Cancelled" => attempts' = attempts]_vars
    /\ (connect_result = "Cancelled") ~> (pc = "done")

\* The teardown is over after an interrupt that cut a pause short while
\* retries were left.
C22_Witness ==
    /\ connect_result = "Cancelled"
    /\ pc = "done"
    /\ auto_reconnect
    /\ attempts = 1
    /\ current_retries = 1
    /\ max_retries = MaxRetriesBound

\* C23 (Spec): no read of an earlier turn of the relay loop is left in
\* flight, and no device packet is taken by an abandoned read and lost:
\* when start_tunnel is over its device read is not outstanding, and a
\* packet that read returned has gone to the transport as a Data frame.
C23_NoAbandonedRead ==
    relay.started
       => /\ relay.device_read # "in_flight"
          /\ relay.device_read = "returned" =>
                \E i \in 1..Len(relay.tls_written) :
                   relay.tls_written[i] =
                      create_data_packet(relay.packet_offered).bytes

\* C24 (Spec): the payload of every Data frame the gateway writes during
\* relaying is written to the device exactly once and in order.
C24_DataFramesDelivered ==
    (relay.started /\ relay.data_offered # <<>>)
       => relay.tun_written = relay.data_offered

\* C25 (SpecApi): the pump runs only while the session is live: is_running
\* implies a connected session and a device that is up, in every state and
\* at the point where start_tunnel sets it.
C25_RunningOnlyWhileLive ==
    /\ is_running => (session.is_connected /\ tun_interface = "up")
    /\ relay.started => relay.tun_at_start = "up"

=============================================================================
